---- MODULE Spec2Model ----
(***************************************************************************)
(* Reason-from-Future controller (src/src/reason_from_future/core.py) and  *)
(* the parts of the shipped strategies (specs/gsm8k.py, specs/game24.py)   *)
(* that the controller calls.  One run of reason_from_future is a          *)
(* behaviour; the llm_call results are the nondeterministic inputs.        *)
(***************************************************************************)
EXTENDS Integers, Sequences, FiniteSets, TLC

VARIABLES
    spec,                \* the ProblemSpec instance: "GSM8KSpec" or "Game24Spec"
    gold_numeric_answer, \* GSM8KSpec.gold_numeric_answer (NaN when unparsable)
    llm,                 \* how llm_call answers: "free" or "stub"
    max_iters, min_iters, require_gold, verbose,   \* keyword parameters
    state,               \* the running Workspace
    goal,                \* the objective symbol
    avoid,               \* set of excluded symbols
    attempt_counts,      \* dict symbol -> number of register_fail calls
    stagnation_counter,
    iter_idx,            \* loop variable of `for iter_idx in range(max_iters)`
    target_step,         \* last result of parse_target_step ("" before any)
    proposal,            \* last fragment returned by parse_workspace_update
    pc,                  \* position inside the loop body
    outcome,             \* "running", "returned", "RuntimeError", "KeyError"
    result,              \* the returned string (NoResult while none)
    calls,               \* strategy / llm calls made by the last step, in order
    direct_attempts,     \* executions of the direct attempt (step 1b) so far in the run
    turns,               \* forward replies the alternating stub has given for its symbol
    retval               \* value returned by a helper called on its own (<<>> in a controller run)

config == <<spec, gold_numeric_answer, llm, max_iters, min_iters, require_gold, verbose>>
vars == <<spec, gold_numeric_answer, llm, max_iters, min_iters, require_gold, verbose,
          state, goal, avoid, attempt_counts, stagnation_counter, iter_idx,
          target_step, proposal, pc, outcome, result, calls, direct_attempts, turns, retval>>

----------------------------------------------------------------------------
(* Bounds of the exploration *)
MaxIters == 4        \* largest max_iters tried
MaxMinIters == 2     \* largest min_iters tried

(* Program constants *)
max_fails_per_var == 3
stagnation_window == 4
TARGET_VALUE == 24
NaN == -1            \* float('nan'): compares unequal to every guess

----------------------------------------------------------------------------
(* Workspace: a Python dict, i.e. a sequence of key/value entries in      *)
(* insertion order with pairwise different keys.                           *)
Keys(w) == {w[i].k : i \in 1..Len(w)}

Has(w, key) == key \in Keys(w)

Get(w, key) == w[CHOOSE i \in 1..Len(w) : w[i].k = key].v

SetItem(w, key, val) ==
    IF Has(w, key)
    THEN [i \in 1..Len(w) |-> IF w[i].k = key THEN [k |-> key, v |-> val] ELSE w[i]]
    ELSE Append(w, [k |-> key, v |-> val])

RECURSIVE Update(_, _)
Update(w, other) ==
    IF other = <<>> THEN w
    ELSE Update(SetItem(w, Head(other).k, Head(other).v), Tail(other))

(* a union in which the left operand wins on a collision *)
WorkspaceOr_LeftBiased(self, other) == Update(Update(<<>>, other), self)

(* a union that gives up on an empty right operand *)
WorkspaceOr_RequiresOther(self, other) ==
    IF other = <<>> THEN <<>> ELSE Update(Update(<<>>, self), other)

(* a union that keeps the right operand only *)
WorkspaceOr_OnlyOther(self, other) == Update(<<>>, other)

(* other | self (__ror__): a new Workspace, updated with other and then with self *)
WorkspaceRor(self, other) == Update(Update(<<>>, other), self)

(* self | other: a new Workspace, updated with self and then with other *)
WorkspaceOr(self, other) == Update(Update(<<>>, self), other)

----------------------------------------------------------------------------
(* Python values stored by GSM8KSpec: floats, ints and strings.            *)
F1 == [t |-> "float", n |-> 1]
F2 == [t |-> "float", n |-> 2]
I1 == [t |-> "int", n |-> 1]
S0 == [t |-> "str", n |-> 0]      \* a non-numeric string

PyNone == [t |-> "None", n |-> 0]

NoResult == [repr |-> "None", n |-> 0]

(* str(x): "1.0" for the float 1.0, "1" for the int 1, the text itself for a str *)
PyStr(val) ==
    IF val.t = "float" THEN [repr |-> "n.0", n |-> val.n]
    ELSE IF val.t = "int" THEN [repr |-> "n", n |-> val.n]
    ELSE [repr |-> "text", n |-> val.n]

(* float(x) for a numeric value *)
PyFloat(val) == [t |-> "float", n |-> val.n]

IsNumeric(val) == val.t \in {"int", "float"}

----------------------------------------------------------------------------
(* GSM8KSpec *)
GsmDeriveFinalTarget == "final_answer"

GsmCheckLocal(w, sym) ==
    IF ~Has(w, sym) THEN FALSE ELSE IsNumeric(Get(w, sym))

(* verify_final is reached by the controller only behind check_local, but  *)
(* handles a missing and a string guess as well.                            *)
GsmVerifyFinal(w) ==
    IF ~Has(w, GsmDeriveFinalTarget)
    THEN [ok |-> FALSE, answer |-> [repr |-> "text", n |-> 0]]
    ELSE LET guess_val == Get(w, GsmDeriveFinalTarget) IN
         IF ~IsNumeric(guess_val)
         THEN [ok |-> FALSE, answer |-> [repr |-> "text", n |-> 0]]
         ELSE [ok |-> (gold_numeric_answer # NaN /\ guess_val.n = gold_numeric_answer),
               answer |-> PyStr(PyFloat(guess_val))]

(* The regular expressions of merge_aliases applied to the names in use:   *)
(* lower-case, drop number|num|total|initial|before|after|of|the, collapse *)
(* and strip underscores.                                                   *)
GsmNormalize(var) ==
    CASE var = "final_answer" -> "final_answer"
      [] var = "A" -> "a"
      [] var = "num_A" -> "a"
      [] var = "B" -> "b"
      [] OTHER -> var

(* an alias merge that keeps, per normalised name, the last entry *)
GsmMergeAliases_KeepsLast(w) ==
    IF Len(w) <= 1 THEN w
    ELSE SelectSeq([i \in 1..Len(w) |->
                      IF \A j \in (i + 1)..Len(w) : GsmNormalize(w[j].k) # GsmNormalize(w[i].k)
                      THEN w[i] ELSE [k |-> "", v |-> w[i].v]],
                   LAMBDA e : e.k # "")

(* Keeps, per normalised name, the first entry in insertion order. *)
GsmMergeAliases(w) ==
    IF Len(w) <= 1 THEN w
    ELSE LET IsRepresentative(i) ==
                 \A j \in 1..(i - 1) : GsmNormalize(w[j].k) # GsmNormalize(w[i].k)
             RECURSIVE Build(_)
             Build(i) == IF i = 0 THEN <<>>
                         ELSE IF IsRepresentative(i) THEN Append(Build(i - 1), w[i])
                         ELSE Build(i - 1)
         IN Build(Len(w))

----------------------------------------------------------------------------
(* Game24Spec, for the original numbers [1, 1, 4, 6].  An expression is    *)
(* known by its text; safe_eval and _extract_numbers are tabulated for the *)
(* expressions the model's llm_call can produce.                            *)
Numbers == {1, 4, 6, 24}
original_nums == <<1, 1, 4, 6>>

Counter(seq) == [x \in Numbers |-> Cardinality({i \in 1..Len(seq) : seq[i] = x})]

CounterSub(a, b) == [x \in Numbers |-> IF a[x] > b[x] THEN a[x] - b[x] ELSE 0]

CounterAdd(a, b) == [x \in Numbers |-> a[x] + b[x]]

Game24Exprs == {"6*4", "6*4*1*1", "1+1", "24"}

CanEval(expr) == expr \in Game24Exprs

safe_eval(expr) ==
    CASE expr = "6*4" -> 24
      [] expr = "6*4*1*1" -> 24
      [] expr = "1+1" -> 2
      [] expr = "24" -> 24

extract_numbers(expr) ==
    CASE expr = "6*4" -> <<6, 4>>
      [] expr = "6*4*1*1" -> <<6, 4, 1, 1>>
      [] expr = "1+1" -> <<1, 1>>
      [] expr = "24" -> <<24>>

RECURSIVE used_counter(_)
used_counter(w) ==
    IF w = <<>> THEN Counter(<<>>)
    ELSE CounterAdd(Counter(Head(w).v.nums), used_counter(Tail(w)))

(* an availability count that forgets what the stored expressions use *)
available_counter_IgnoresUsed(w) == Counter(original_nums)

available_counter(w) == CounterSub(Counter(original_nums), used_counter(w))

Game24DeriveFinalTarget == "24"

Game24CheckLocal(w, sym) ==
    IF ~CanEval(sym) THEN FALSE
    ELSE \E i \in 1..Len(w) : w[i].v.value = safe_eval(sym)

Game24VerifyFinal(w) ==
    LET Solves(i) == /\ w[i].v.value = TARGET_VALUE
                     /\ Counter(w[i].v.nums) = Counter(original_nums)
    IN IF \E i \in 1..Len(w) : Solves(i)
       THEN LET first == CHOOSE i \in 1..Len(w) :
                            Solves(i) /\ \A j \in 1..(i - 1) : ~Solves(j)
            IN [ok |-> TRUE, answer |-> [repr |-> "text", n |-> w[first].v.expr]]
       ELSE [ok |-> FALSE, answer |-> [repr |-> "text", n |-> ""]]

(* uuid.uuid4(): a key that is in no workspace of the run *)
Uuids == <<"uuid-1", "uuid-2", "uuid-3", "uuid-4">>
(* a key that is the text of an expression instead of a fresh identifier *)
FreshUuid_ExpressionText(w) == "1+1"

FreshUuid(w) == Uuids[Len(w) + 1]

(* parse_workspace_update on the text `raw`, against the workspace w *)
Game24ParseWorkspaceUpdate(raw, w) ==
    IF ~CanEval(raw) THEN <<>>
    ELSE LET nums_in_expr == extract_numbers(raw)
             avail == available_counter(w)
         IN IF \A x \in Numbers : avail[x] >= Counter(nums_in_expr)[x]
            THEN <<[k |-> FreshUuid(w),
                    v |-> [expr |-> raw, value |-> safe_eval(raw), nums |-> nums_in_expr]]>>
            ELSE <<>>

Game24MergeAliases(w) == w

----------------------------------------------------------------------------
(* CodeWritingSpec.  A workspace value is a nested dict (known by the set  *)
(* of its names), a string (the set holding it) or None.  Of the schema's  *)
(* categories `modules` stands for all six dict-valued ones, which are     *)
(* handled alike.                                                           *)
CodeDict(names) == [t |-> "dict", n |-> names]
CodeStr(text) == [t |-> "str", n |-> {text}]
CodeNone == [t |-> "None", n |-> {}]

CodeDeriveFinalTarget == "complete_code_solution"

workspace_schema ==
    <<[k |-> "modules", v |-> CodeDict({})], [k |-> "solution_code", v |-> CodeNone]>>

(* the body of the try block after json.loads, on the dict `st` that the   *)
(* name `state` refers to: item assignments on that object                  *)
CodeApplyUpdate(raw, st) ==
    CASE raw.update_type = "module" /\ raw.name # "" ->
           LET st1 == IF ~Has(st, "modules") THEN SetItem(st, "modules", CodeDict({})) ELSE st
           IN SetItem(st1, "modules", CodeDict(Get(st1, "modules").n \cup {raw.name}))
      [] raw.update_type = "solution_code" /\ raw.code # "" ->
           SetItem(st, "solution_code", CodeStr(raw.code))
      [] OTHER -> st

(* CodeWritingSpec.parse_workspace_update(raw_text, state): what the call *)
(* does to the passed object, what it returns, and which object that is:   *)
(* the passed one ("state"), one made in the call ("new"), or none because *)
(* the read of state.workspace_schema in the no-JSON branch raises.         *)
CodeParseWorkspaceUpdate(raw, w) ==
    IF ~raw.json
    THEN [state |-> w, result |-> <<>>, returns |-> "AttributeError"]
    ELSE IF w = <<>>
         THEN [state |-> w, result |-> CodeApplyUpdate(raw, workspace_schema), returns |-> "new"]
         ELSE [state |-> CodeApplyUpdate(raw, w), result |-> CodeApplyUpdate(raw, w),
               returns |-> "state"]

(* replies: a module update, a solution_code update (code "" = no "code"  *)
(* key), an object of unknown update_type, and text without a JSON object  *)
CodeRaw ==
    [json : {TRUE}, update_type : {"module"}, name : {"", "m1", "m2"}, code : {""}]
    \cup [json : {TRUE}, update_type : {"solution_code"}, name : {""}, code : {"", "c1"}]
    \cup [json : {TRUE}, update_type : {""}, name : {""}, code : {""}]
    \cup [json : {FALSE}, update_type : {""}, name : {""}, code : {""}]

----------------------------------------------------------------------------
(* Dispatch on the strategy in use *)
derive_final_target ==
    IF spec = "GSM8KSpec" THEN GsmDeriveFinalTarget
    ELSE IF spec = "Game24Spec" THEN Game24DeriveFinalTarget
    ELSE CodeDeriveFinalTarget

check_local(w, sym) ==
    IF spec = "GSM8KSpec" THEN GsmCheckLocal(w, sym) ELSE Game24CheckLocal(w, sym)

verify_final(w) ==
    IF spec = "GSM8KSpec" THEN GsmVerifyFinal(w) ELSE Game24VerifyFinal(w)

merge_aliases(w) ==
    IF spec = "GSM8KSpec" THEN GsmMergeAliases(w) ELSE Game24MergeAliases(w)


----------------------------------------------------------------------------
(* What llm_call can answer, seen through the strategy's parsers.          *)

(* GSM8KSpec.parse_workspace_update.  The reply is either not JSON (with   *)
(* or without a "final answer is <n>" phrase, boxed = the number or 0) or  *)
(* a JSON object with var, value and an expr that is absent ("none"),      *)
(* evaluates to the value ("match") or does not ("mismatch").              *)
GsmParseWorkspaceUpdate(raw, w) ==
    IF raw.json /\ raw.var # "" /\ raw.value # PyNone
    THEN IF raw.expr # "none"
         THEN IF raw.expr = "match" /\ IsNumeric(raw.value)
              THEN <<[k |-> raw.var, v |-> raw.value]>>
              ELSE <<>>
         ELSE IF raw.value.t = "str"
              THEN <<[k |-> raw.var, v |-> raw.value]>>
              ELSE <<[k |-> raw.var, v |-> PyFloat(raw.value)]>>
    ELSE IF raw.boxed # 0
         THEN <<[k |-> GsmDeriveFinalTarget, v |-> [t |-> "float", n |-> raw.boxed]]>>
         ELSE <<>>

GsmValues == {F1, F2, S0}

GsmRaw ==
    [json : {TRUE}, var : {"final_answer", "A"}, value : GsmValues,
     expr : {"none", "match", "mismatch"}, boxed : {0}]
    \cup [json : {TRUE}, var : {"num_A"}, value : {F2}, expr : {"none"}, boxed : {0}]
    \cup [json : {TRUE}, var : {""}, value : {PyNone}, expr : {"none"}, boxed : {0}]
    \cup [json : {FALSE}, var : {""}, value : {PyNone}, expr : {"none"}, boxed : {0, 1}]

Game24Raw == {"6*4", "6*4*1*1", "1+1", "CANNOT_ACHIEVE_WITH_AVAILABLE_NUMBERS"}

(* The scripted strategy with two prerequisites: the objective final_answer *)
(* is computable once A and B are in the workspace; backward planning       *)
(* proposes B, then A; a request for A or B is answered with that symbol.   *)
StubForward(request, w) ==
    IF request = GsmDeriveFinalTarget
    THEN IF GsmCheckLocal(w, "A") /\ GsmCheckLocal(w, "B")
         THEN {<<[k |-> GsmDeriveFinalTarget, v |-> I1]>>}
         ELSE {<<>>, <<[k |-> GsmDeriveFinalTarget, v |-> S0]>>}
    ELSE {<<[k |-> request, v |-> F2]>>}

StubTarget(w) ==
    IF ~Has(w, "B") THEN "B" ELSE IF ~Has(w, "A") THEN "A" ELSE ""

(* The scripted strategy that alternates for one symbol: backward planning  *)
(* always proposes A; the replies to a request for A are malformed on the   *)
(* odd turns and a valid value of A on the even turns; a direct request for *)
(* the objective is answered with nothing usable.                            *)
AlternatingForward(request) ==
    IF request = GsmDeriveFinalTarget THEN {<<>>}
    ELSE IF turns % 2 = 0 THEN {<<>>}
    ELSE {<<[k |-> request, v |-> F2]>>}

AlternatingTarget == "A"

(* parse_workspace_update(llm_call(prompt_forward_step(w, request, avoid)), w) *)
ForwardProposals(request, w) ==
    IF llm = "stub" THEN StubForward(request, w)
    ELSE IF llm = "alternating" THEN AlternatingForward(request)
    ELSE IF spec = "GSM8KSpec"
         THEN {GsmParseWorkspaceUpdate(raw, w) : raw \in GsmRaw}
         ELSE {Game24ParseWorkspaceUpdate(raw, w) : raw \in Game24Raw}

(* parse_target_step(llm_call(prompt_last_step(w, target, avoid))) *)
TargetSteps(w) ==
    IF llm = "stub" THEN {StubTarget(w)}
    ELSE IF llm = "alternating" THEN {AlternatingTarget}
    ELSE IF spec = "GSM8KSpec"
         THEN {"", "final_answer", "A"}
         ELSE {"", "24", "6*4", "1+1"}

----------------------------------------------------------------------------
(* Bookkeeping *)
Count(counts, symbol) == IF symbol \in DOMAIN counts THEN counts[symbol] ELSE 0

(* register_fail that blacklists one failure early *)
register_fail_EarlyBlacklist(b, symbol) ==
    LET n == Count(b.attempt_counts, symbol) + 1
        ac == [x \in DOMAIN b.attempt_counts \cup {symbol} |->
                  IF x = symbol THEN n ELSE b.attempt_counts[x]]
    IN [attempt_counts |-> ac,
        avoid |-> IF n >= max_fails_per_var - 1 THEN b.avoid \cup {symbol} ELSE b.avoid]

(* register_fail that overwrites the avoid set instead of adding to it *)
register_fail_ReplacesAvoid(b, symbol) ==
    LET n == Count(b.attempt_counts, symbol) + 1
        ac == [x \in DOMAIN b.attempt_counts \cup {symbol} |->
                  IF x = symbol THEN n ELSE b.attempt_counts[x]]
    IN [attempt_counts |-> ac,
        avoid |-> IF n >= max_fails_per_var THEN {symbol} ELSE b.avoid]

(* register_fail that blacklists on every failure *)
register_fail_Immediate(b, symbol) ==
    LET n == Count(b.attempt_counts, symbol) + 1
        ac == [x \in DOMAIN b.attempt_counts \cup {symbol} |->
                  IF x = symbol THEN n ELSE b.attempt_counts[x]]
    IN [attempt_counts |-> ac, avoid |-> b.avoid \cup {symbol}]

(* register_fail that keeps only the counter of the symbol it is called on *)
register_fail_ForgetsOthers(b, symbol) ==
    LET n == Count(b.attempt_counts, symbol) + 1
    IN [attempt_counts |-> [x \in {symbol} |-> n],
        avoid |-> IF n >= max_fails_per_var THEN b.avoid \cup {symbol} ELSE b.avoid]

(* register_fail on the pair b = [attempt_counts, avoid] *)
register_fail(b, symbol) ==
    LET n == Count(b.attempt_counts, symbol) + 1
        ac == [x \in DOMAIN b.attempt_counts \cup {symbol} |->
                  IF x = symbol THEN n ELSE b.attempt_counts[x]]
    IN [attempt_counts |-> ac,
        avoid |-> IF n >= max_fails_per_var THEN b.avoid \cup {symbol} ELSE b.avoid]

Books == [attempt_counts |-> attempt_counts, avoid |-> avoid]

Call(op, sym, ret, out) == [op |-> op, sym |-> sym, ret |-> ret, out |-> out]


----------------------------------------------------------------------------
(* The controller, reason_from_future *)

Init ==
    /\ spec \in {"GSM8KSpec", "Game24Spec"}
    /\ gold_numeric_answer \in (IF spec = "GSM8KSpec" THEN {1, NaN} ELSE {TARGET_VALUE})
    /\ llm \in (IF spec = "GSM8KSpec" /\ gold_numeric_answer = 1
                THEN {"free", "stub", "alternating"} ELSE {"free"})
    /\ max_iters \in 0..MaxIters
    /\ require_gold \in BOOLEAN
    /\ min_iters \in (IF require_gold THEN {1} ELSE 1..MaxMinIters)
    /\ verbose \in BOOLEAN
    /\ state = <<>>
    /\ goal = derive_final_target
    /\ avoid = {}
    /\ attempt_counts = <<>>
    /\ stagnation_counter = 0
    /\ iter_idx = -1
    /\ target_step = ""
    /\ proposal = <<>>
    /\ pc = "for"
    /\ outcome = "running"
    /\ result = NoResult
    /\ calls = <<>>
    /\ direct_attempts = 0
    /\ turns = 0
    /\ retval = <<>>

(* `return str(w[goal])`: a KeyError when goal is not a key of w *)
ReturnGoalValue(w, log) ==
    /\ IF Has(w, goal)
       THEN outcome' = "returned" /\ result' = PyStr(Get(w, goal))
       ELSE outcome' = "KeyError" /\ result' = NoResult
    /\ calls' = log

ReturnAnswer(answer, log) ==
    /\ outcome' = "returned"
    /\ result' = answer
    /\ calls' = log

(* a loop that runs one iteration too many *)
MoreIterations_OffByOne == iter_idx + 1 <= max_iters

(* range(max_iters) has a next element *)
MoreIterations == iter_idx + 1 < max_iters

(* `for iter_idx in range(max_iters):`; the names bound inside the loop body *)
(* (target_step, the parsed fragments) are bound anew before their next use  *)
NextIteration ==
    /\ pc = "for" /\ outcome = "running"
    /\ MoreIterations
    /\ iter_idx' = iter_idx + 1
    /\ pc' = "check"
    /\ calls' = <<>>
    /\ target_step' = ""
    /\ proposal' = <<>>
    /\ UNCHANGED <<config, direct_attempts, turns, retval, state, goal, avoid, attempt_counts, stagnation_counter,
                   outcome, result>>

(* the loop is over: raise RuntimeError *)
Exhausted ==
    /\ pc = "for" /\ outcome = "running"
    /\ ~MoreIterations
    /\ outcome' = "RuntimeError"
    /\ UNCHANGED <<config, direct_attempts, turns, retval, state, goal, avoid, attempt_counts, stagnation_counter, iter_idx,
                   target_step, proposal, pc, result, calls>>

(* no-gold return without the min_iters floor *)
NoGoldReturn_NoFloor == ~require_gold

(* local-check return also when gold is required *)
NoGoldReturn_IgnoresGold == iter_idx >= (min_iters - 1)

(* the floor one iteration too early *)
NoGoldReturn_OffByOne == ~require_gold /\ iter_idx >= (min_iters - 2)

(* `not require_gold and iter_idx >= (min_iters - 1)` *)
NoGoldReturn == ~require_gold /\ iter_idx >= (min_iters - 1)

(* a goal test that lets every workspace through to verify_final *)
GoalLocallyValid_Unchecked(w) == TRUE

(* `if spec.check_local(w, goal):` in front of the return / verify_final *)
GoalLocallyValid(w) == check_local(w, goal)

(* a check that removes the rejected goal value from the workspace *)
AfterRejectedCheck_RemovesGoal(w) == SelectSeq(w, LAMBDA e : e.k # goal)

(* the workspace after step 1 has found a goal that verify_final rejects:  *)
(* only register_fail(goal) is called, nothing is removed                   *)
AfterRejectedCheck(w) == w

(* an objective check that trusts a stored goal value only while the goal *)
(* is outside the avoid set                                                *)
ObjectiveSatisfied_UnlessAvoided(w) == goal \notin avoid /\ GoalLocallyValid(w)

(* `if spec.check_local(state, goal):` at the start of the iteration; the  *)
(* avoid set is not read                                                    *)
ObjectiveSatisfied(w) == GoalLocallyValid(w)

(* 1) objective-satisfied check *)
ObjectiveCheck ==
    /\ pc = "check" /\ outcome = "running"
    /\ LET local == ObjectiveSatisfied(state)
           log0 == <<Call("check_local", goal, local, NoResult)>>
       IN IF local
          THEN IF NoGoldReturn
               THEN /\ ReturnGoalValue(state, log0)
                    /\ UNCHANGED <<state, avoid, attempt_counts, pc>>
               ELSE LET vf == verify_final(state)
                        log1 == Append(log0, Call("verify_final", goal, vf.ok, vf.answer))
                    IN IF vf.ok
                       THEN /\ ReturnAnswer(vf.answer, log1)
                            /\ UNCHANGED <<state, avoid, attempt_counts, pc>>
                       ELSE LET b == register_fail(Books, goal) IN
                            /\ state' = AfterRejectedCheck(state)
                            /\ attempt_counts' = b.attempt_counts
                            /\ avoid' = b.avoid
                            /\ calls' = Append(log1, Call("register_fail", goal, TRUE, NoResult))
                            /\ pc' = "direct"
                            /\ UNCHANGED <<outcome, result>>
          ELSE /\ calls' = log0
               /\ pc' = "direct"
               /\ UNCHANGED <<state, avoid, attempt_counts, outcome, result>>
    /\ UNCHANGED <<config, direct_attempts, turns, retval, goal, stagnation_counter, iter_idx, target_step, proposal>>

(* a direct attempt that drops its candidate *)
DirectCommit_KeepsState(direct_state, log) ==
    LET b == register_fail(Books, goal) IN
    /\ state' = state
    /\ attempt_counts' = b.attempt_counts
    /\ avoid' = b.avoid
    /\ calls' = Append(log, Call("register_fail", goal, TRUE, NoResult))
    /\ pc' = "backward"
    /\ UNCHANGED <<outcome, result>>

(* 1b) direct attempt at the goal *)
DirectCommit(direct_state, log) ==
    LET b == register_fail(Books, goal) IN
    /\ state' = direct_state
    /\ attempt_counts' = b.attempt_counts
    /\ avoid' = b.avoid
    /\ calls' = Append(log, Call("register_fail", goal, TRUE, NoResult))
    /\ pc' = "backward"
    /\ UNCHANGED <<outcome, result>>

(* a fast path that is tried in every iteration *)
DirectAttemptAllowed_Always == TRUE

(* `if goal not in avoid:` *)
DirectAttemptAllowed == goal \notin avoid

DirectAttempt ==
    /\ pc = "direct" /\ outcome = "running"
    /\ direct_attempts' = IF DirectAttemptAllowed THEN direct_attempts + 1 ELSE direct_attempts
    /\ IF DirectAttemptAllowed
       THEN \E p \in ForwardProposals(goal, state) :
              LET direct_state == WorkspaceOr(state, p)
                  local == GoalLocallyValid(direct_state)
                  log0 == <<Call("prompt_forward_step", goal, TRUE, NoResult),
                                     Call("llm_call", "", TRUE, NoResult),
                                     Call("check_local", goal, local, NoResult)>>
              IN /\ proposal' = p
                 /\ IF local
                    THEN IF NoGoldReturn
                         THEN /\ ReturnGoalValue(direct_state, log0)
                              /\ UNCHANGED <<state, avoid, attempt_counts, pc>>
                         ELSE LET vf == verify_final(direct_state)
                                  log1 == Append(log0, Call("verify_final", goal, vf.ok, vf.answer))
                              IN IF vf.ok
                                 THEN /\ ReturnAnswer(vf.answer, log1)
                                      /\ UNCHANGED <<state, avoid, attempt_counts, pc>>
                                 ELSE DirectCommit(direct_state, log1)
                    ELSE DirectCommit(direct_state, log0)
       ELSE /\ pc' = "backward"
            /\ calls' = <<>>
            /\ UNCHANGED <<state, avoid, attempt_counts, proposal, outcome, result>>
    /\ UNCHANGED <<config, turns, retval, goal, stagnation_counter, iter_idx, target_step>>

(* the old controller: the returned prerequisite becomes the next target *)
GoalAfterPlanning_Retarget(t) == IF t # "" THEN t ELSE goal

(* the prerequisite t returned by backward planning does not become the goal *)
GoalAfterPlanning(t) == goal

(* a guard that skips only on an empty prerequisite *)
SkipsIteration_OnlyEmpty(t) == t = ""

(* a guard that lets every prerequisite through *)
SkipsIteration_Never(t) == FALSE

(* 2a) `if not target_step or target_step in avoid: continue` *)
SkipsIteration(t) == t = "" \/ t \in avoid

(* 2) backward planning and the guard 2a *)
BackwardPlan ==
    /\ pc = "backward" /\ outcome = "running"
    /\ \E t \in TargetSteps(state) :
         /\ target_step' = t
         /\ calls' = <<Call("prompt_last_step", goal, TRUE, NoResult),
                                Call("llm_call", "", TRUE, NoResult)>>
         /\ pc' = IF SkipsIteration(t) THEN "for" ELSE "forward"
         /\ goal' = GoalAfterPlanning(t)
    /\ UNCHANGED <<config, direct_attempts, turns, retval, state, avoid, attempt_counts, stagnation_counter, iter_idx,
                   proposal, outcome, result>>

(* a soft restart that comes one idle iteration late *)
SoftRestartDue_Late(sc) == sc > stagnation_window

(* `if stagnation_counter >= stagnation_window:` *)
SoftRestartDue(sc) == sc >= stagnation_window

(* a pruning that empties the avoid set *)
PermanentlyFailed_None(counts) == {}

(* a pruning that keeps only the symbols above the threshold *)
PermanentlyFailed_AboveThreshold(counts) ==
    {s \in DOMAIN counts : counts[s] > max_fails_per_var}

(* `{s for s, cnt in attempt_counts.items() if cnt >= max_fails_per_var}` *)
PermanentlyFailed(counts) ==
    {s \in DOMAIN counts : counts[s] >= max_fails_per_var}

(* a soft restart that clears the failure counters with the avoid set *)
CountsAfterRestart_Cleared(counts) == [s \in {} |-> 0]

(* the soft restart recomputes `avoid` from attempt_counts and assigns     *)
(* nothing to attempt_counts                                                *)
CountsAfterRestart(counts) == counts

(* post-iteration bookkeeping: alias merge, stagnation counter, soft restart *)
PostIteration(st, b, made_progress, log) ==
    LET sc == IF made_progress THEN 0 ELSE stagnation_counter + 1
        restart == SoftRestartDue(sc)
    IN /\ state' = merge_aliases(st)
       /\ calls' = log \o <<Call("merge_aliases", "", TRUE, NoResult)>>
                       \o (IF restart THEN <<Call("soft_restart", "", TRUE, NoResult)>> ELSE <<>>)
       /\ attempt_counts' = IF restart THEN CountsAfterRestart(b.attempt_counts)
                                     ELSE b.attempt_counts
       /\ avoid' = IF restart THEN PermanentlyFailed(b.attempt_counts) ELSE b.avoid
       /\ stagnation_counter' = IF restart THEN 0 ELSE sc
       /\ pc' = "for"
       /\ UNCHANGED <<outcome, result>>

(* `continue` after register_fail on the symbols of `fails` (in order) *)
RECURSIVE register_fails(_, _)
register_fails(b, fails) ==
    IF fails = <<>> THEN b ELSE register_fails(register_fail(b, Head(fails)), Tail(fails))

(* a rejection that goes on to the bookkeeping as an iteration without progress *)
RejectAndContinue_ThenBookkeeping(fails, log) ==
    PostIteration(state, register_fails(Books, fails), FALSE,
                  log \o [i \in 1..Len(fails) |-> Call("register_fail", fails[i], TRUE, NoResult)])

RejectAndContinue(fails, log) ==
    LET b == register_fails(Books, fails) IN
    /\ attempt_counts' = b.attempt_counts
    /\ avoid' = b.avoid
    /\ calls' = log \o [i \in 1..Len(fails) |-> Call("register_fail", fails[i], TRUE, NoResult)]
    /\ pc' = "for"
    /\ UNCHANGED <<state, stagnation_counter, outcome, result>>

(* a forward step that commits without the local check *)
AcceptsPrerequisite_NoCheck(temp_state) == TRUE

(* a forward step that commits whatever value arrives under the requested name *)
AcceptsPrerequisite_KeyPresent(temp_state) == Has(temp_state, target_step)

(* the forward result is committed: it names the requested symbol and the *)
(* merged workspace passes check_local for it                              *)
AcceptsPrerequisite(temp_state) == check_local(temp_state, target_step)

(* 3) forward step for target_step, with the bookkeeping that follows it, *)
(* as the controller runs it when its verbose parameter is v               *)
ForwardStepAs(v) ==
    /\ pc = "forward" /\ outcome = "running"
    /\ \E parsed_update \in ForwardProposals(target_step, state) :
         LET llm_provided_var == IF parsed_update # <<>> THEN parsed_update[1].k ELSE "None"
             temp_state == WorkspaceOr(state, parsed_update)
             log0 == <<Call("prompt_forward_step", target_step, TRUE, NoResult),
                                Call("llm_call", "", TRUE, NoResult)>>
             goal_fails == IF target_step # goal THEN <<goal, target_step>> ELSE <<goal>>
         IN /\ proposal' = parsed_update
            /\ IF parsed_update # <<>> /\ llm_provided_var = goal
               THEN LET local == GoalLocallyValid(temp_state)
                        log1 == Append(log0, Call("check_local", goal, local, NoResult))
                    IN IF local
                       THEN IF NoGoldReturn
                            THEN /\ ReturnGoalValue(temp_state, log1)
                                 /\ UNCHANGED <<state, avoid, attempt_counts,
                                                stagnation_counter, pc>>
                            ELSE LET vf == verify_final(temp_state)
                                     log2 == Append(log1, Call("verify_final", goal, vf.ok, vf.answer))
                                 IN IF vf.ok
                                    THEN /\ ReturnAnswer(vf.answer, log2)
                                         /\ UNCHANGED <<state, avoid, attempt_counts,
                                                        stagnation_counter, pc>>
                                    ELSE IF v
                                         THEN PostIteration(state, Books, FALSE, log2)
                                         ELSE RejectAndContinue(goal_fails, log2)
                       ELSE RejectAndContinue(goal_fails, log1)
               ELSE IF parsed_update # <<>> /\ llm_provided_var = target_step
                    THEN LET local == AcceptsPrerequisite(temp_state)
                             log1 == Append(log0, Call("check_local", target_step, local, NoResult))
                         IN IF local
                            THEN PostIteration(temp_state, register_fail(Books, target_step), TRUE,
                                               Append(log1, Call("register_fail", target_step, TRUE, NoResult)))
                            ELSE RejectAndContinue(<<target_step>>, log1)
                    ELSE RejectAndContinue(<<target_step>>, log0)
    /\ turns' = IF llm = "alternating" THEN turns + 1 ELSE turns
    /\ UNCHANGED <<config, direct_attempts, retval, goal, iter_idx, target_step>>

ForwardStep == ForwardStepAs(verbose)

Next ==
    \/ NextIteration
    \/ Exhausted
    \/ ObjectiveCheck
    \/ DirectAttempt
    \/ BackwardPlan
    \/ ForwardStep

Spec == Init /\ [][Next]_vars

(* every call returns, so the sequential program always takes its next step *)
FairSpec == Spec /\ WF_vars(Next)

----------------------------------------------------------------------------
(* The helpers on their own: register_fail on the bookkeeping it closes    *)
(* over, Workspace.__or__ and __ror__ on two operands.  The operands are   *)
(* drawn at the start, one call is made.                                    *)
MaxCount == 4        \* largest attempt counter drawn
MaxKeys == 2         \* largest number of keys of an operand

Symbols == {"final_answer", "A", "B"}

(* the dicts attempt_counts can be: symbol -> positive count *)
AttemptCounts == UNION {[D -> 1..MaxCount] : D \in SUBSET Symbols}

(* workspaces (dicts) with at most MaxKeys keys, in every insertion order *)
Workspaces ==
    UNION {{w \in [1..n -> [k : Symbols, v : {F1, F2}]] :
              \A i, j \in 1..n : i # j => w[i].k # w[j].k} : n \in 0..MaxKeys}

(* GSM8K workspaces whose names include the aliases A and num_A *)
AliasSymbols == {"final_answer", "A", "num_A", "B"}

AliasWorkspaces ==
    UNION {{w \in [1..n -> [k : AliasSymbols, v : {F1, F2}]] :
              \A i, j \in 1..n : i # j => w[i].k # w[j].k} : n \in 0..MaxKeys}

(* Game24 workspaces: uuid keys, one stored expression each *)
Game24Entry(expr) == [expr |-> expr, value |-> safe_eval(expr), nums |-> extract_numbers(expr)]

Game24Workspaces ==
    UNION {{w \in [1..n -> [k : {Uuids[i] : i \in 1..Len(Uuids)},
                            v : {Game24Entry(e) : e \in Game24Exprs}]] :
              \A i \in 1..n : w[i].k = Uuids[i]} : n \in 0..MaxKeys}

(* CodeWritingSpec workspaces: empty, or the schema with some modules and *)
(* perhaps a solution                                                      *)
CodeWorkspaces ==
    {<<>>} \cup {<<[k |-> "modules", v |-> CodeDict(S)], [k |-> "solution_code", v |-> c]>> :
                   S \in SUBSET {"m1", "m2"}, c \in {CodeNone, CodeStr("c1")}}

HelperInit ==
    /\ gold_numeric_answer = 1
    /\ llm = "free"
    /\ max_iters = 0
    /\ min_iters = 1
    /\ require_gold = TRUE
    /\ verbose = FALSE
    /\ stagnation_counter = 0
    /\ iter_idx = -1
    /\ target_step = ""
    /\ outcome = "running"
    /\ result = NoResult
    /\ calls = <<>>
    /\ direct_attempts = 0
    /\ turns = 0
    /\ retval = <<>>
    /\ \/ /\ pc = "register_fail"
          /\ spec = "GSM8KSpec"
          /\ attempt_counts \in AttemptCounts
          /\ avoid = PermanentlyFailed(attempt_counts)
          /\ state = <<>>
          /\ proposal = <<>>
       \/ /\ pc \in {"__or__", "__ror__"}
          /\ spec = "GSM8KSpec"
          /\ state \in Workspaces
          /\ proposal \in Workspaces
          /\ attempt_counts = <<>>
          /\ avoid = {}
       \/ /\ pc = "parse_workspace_update"
          /\ \/ spec = "GSM8KSpec" /\ state \in Workspaces
             \/ spec = "Game24Spec" /\ state \in Game24Workspaces
             \/ spec = "CodeWritingSpec" /\ state \in CodeWorkspaces
          /\ proposal = <<>>
          /\ attempt_counts = <<>>
          /\ avoid = {}
       \/ /\ pc = "merge_aliases"
          /\ \/ spec = "GSM8KSpec" /\ state \in AliasWorkspaces
             \/ spec = "Game24Spec" /\ state \in Game24Workspaces
          /\ proposal = <<>>
          /\ attempt_counts = <<>>
          /\ avoid = {}
    /\ goal = derive_final_target

(* register_fail(symbol) *)
RegisterFailCall ==
    /\ pc = "register_fail"
    /\ \E symbol \in Symbols :
         LET b == register_fail(Books, symbol) IN
         /\ attempt_counts' = b.attempt_counts
         /\ avoid' = b.avoid
         /\ calls' = <<Call("register_fail", symbol, TRUE, NoResult)>>
    /\ pc' = "done"
    /\ UNCHANGED <<config, direct_attempts, turns, retval, state, goal, stagnation_counter, iter_idx,
                   target_step, proposal, outcome, result>>

(* a union that updates the left operand in place and returns it *)
OrCall_InPlace(self, other) ==
    [self |-> WorkspaceOr(self, other), other |-> other,
     result |-> WorkspaceOr(self, other), returns |-> "self"]

(* what a call self | other does to the objects involved: `combined` is a   *)
(* Workspace() of its own, the only object that update() is called on       *)
OrCall(self, other) ==
    [self |-> self, other |-> other,
     result |-> WorkspaceOr(self, other), returns |-> "combined"]

(* the same for other | self *)
RorCall(self, other) ==
    [self |-> self, other |-> other,
     result |-> WorkspaceRor(self, other), returns |-> "combined"]

(* state | proposal *)
WorkspaceOrCall ==
    /\ pc = "__or__"
    /\ LET e == OrCall(state, proposal) IN
         /\ state' = e.self
         /\ proposal' = e.other
         /\ retval' = e.result
         /\ calls' = <<Call("__or__", e.returns, TRUE, NoResult)>>
    /\ pc' = "done"
    /\ UNCHANGED <<config, direct_attempts, turns, goal, avoid, attempt_counts, stagnation_counter,
                   iter_idx, target_step, outcome, result>>

(* proposal | state, with the plain dict on the left *)
WorkspaceRorCall ==
    /\ pc = "__ror__"
    /\ LET e == RorCall(state, proposal) IN
         /\ state' = e.self
         /\ proposal' = e.other
         /\ retval' = e.result
         /\ calls' = <<Call("__ror__", e.returns, TRUE, NoResult)>>
    /\ pc' = "done"
    /\ UNCHANGED <<config, direct_attempts, turns, goal, avoid, attempt_counts, stagnation_counter,
                   iter_idx, target_step, outcome, result>>

(* spec.merge_aliases(state) *)
MergeAliasesCall ==
    /\ pc = "merge_aliases"
    /\ retval' = merge_aliases(state)
    /\ calls' = <<Call("merge_aliases", "", TRUE, NoResult)>>
    /\ pc' = "done"
    /\ UNCHANGED <<config, direct_attempts, turns, state, goal, avoid, attempt_counts, stagnation_counter,
                   iter_idx, target_step, proposal, outcome, result>>

(* what spec.parse_workspace_update(raw, w) can do, over the replies *)
ParseCalls(w) ==
    IF spec = "GSM8KSpec"
    THEN {[state |-> w, result |-> GsmParseWorkspaceUpdate(raw, w), returns |-> "new"] :
            raw \in GsmRaw}
    ELSE IF spec = "Game24Spec"
    THEN {[state |-> w, result |-> Game24ParseWorkspaceUpdate(raw, w), returns |-> "new"] :
            raw \in Game24Raw}
    ELSE {CodeParseWorkspaceUpdate(raw, w) : raw \in CodeRaw}

(* spec.parse_workspace_update(raw_text, state) *)
ParseWorkspaceUpdateCall ==
    /\ pc = "parse_workspace_update"
    /\ \E e \in ParseCalls(state) :
         /\ state' = e.state
         /\ retval' = e.result
         /\ calls' = <<Call("parse_workspace_update", e.returns, TRUE, NoResult)>>
    /\ pc' = "done"
    /\ UNCHANGED <<config, direct_attempts, turns, goal, avoid, attempt_counts,
                   stagnation_counter, iter_idx, target_step, proposal, outcome, result>>

HelperNext ==
    \/ ParseWorkspaceUpdateCall
    \/ RegisterFailCall
    \/ WorkspaceOrCall
    \/ WorkspaceRorCall
    \/ MergeAliasesCall

HelperSpec == HelperInit /\ [][HelperNext]_vars

TypeOK ==
    /\ pc \in {"for", "check", "direct", "backward", "forward"}
    /\ outcome \in {"running", "returned", "RuntimeError", "KeyError"}
    /\ iter_idx \in -1..(max_iters - 1) \cup {-1}
    /\ stagnation_counter \in 0..stagnation_window
    /\ avoid \subseteq DOMAIN attempt_counts
    /\ turns \in 0..MaxIters
    /\ direct_attempts \in 0..MaxIters


----------------------------------------------------------------------------
(* Observations used by the properties *)
Ops == {calls[i].op : i \in 1..Len(calls)}

LastCall == calls[Len(calls)]

Terminated == outcome # "running"

(* the run ended in a return of the answer of an accepting verify_final *)
VerifiedReturn ==
    /\ outcome = "returned"
    /\ calls # <<>>
    /\ LastCall.op = "verify_final"
    /\ LastCall.ret
    /\ LastCall.out = result

(* the workspace the last local check of a terminated run looked at *)
ReturnWorkspace == IF pc = "check" THEN state ELSE WorkspaceOr(state, proposal)

(* the run ended in a return of the goal's value on a local check alone *)
LocalReturn ==
    /\ outcome = "returned"
    /\ calls # <<>>
    /\ LastCall.op = "check_local"
    /\ LastCall.sym = goal
    /\ LastCall.ret
    /\ Has(ReturnWorkspace, goal)
    /\ result = PyStr(Get(ReturnWorkspace, goal))

(* the last step was a forward step that committed the requested symbol *)
ForwardCommitted ==
    /\ pc = "for"
    /\ "merge_aliases" \in Ops
    /\ "register_fail" \in Ops

SoftRestarted == "soft_restart" \in Ops

----------------------------------------------------------------------------
(* C1 (as stated): in the direct attempt and in the forward step, `state`  *)
(* becomes state | proposal only if check_local holds on the merged        *)
(* workspace for the symbol the proposal targets.                           *)
C1_CommitOnlyIfLocallyValid ==
    [][(pc \in {"direct", "forward"} /\ state' # state /\ state' # merge_aliases(state))
         => (proposal' # <<>>
             /\ check_local(WorkspaceOr(state, proposal'), proposal'[1].k))]_vars

(* C1 (amended): in the forward step, `state` becomes state | proposal     *)
(* only if the proposal names the requested symbol and check_local holds   *)
(* on the merged workspace for it; any other forward proposal leaves the   *)
(* workspace as it was (up to alias merging when bookkeeping is reached).  *)
C1_ForwardCommitOnlyIfLocallyValid ==
    [][pc = "forward"
         => \/ state' = state
            \/ state' = merge_aliases(state)
            \/ /\ proposal' # <<>>
               /\ proposal'[1].k = target_step
               /\ check_local(WorkspaceOr(state, proposal'), target_step)
               /\ state' = merge_aliases(WorkspaceOr(state, proposal'))]_vars

C1_Witness ==
    /\ ForwardCommitted
    /\ proposal # <<>>
    /\ Has(state, target_step)
    /\ Get(state, target_step) = proposal[1].v

(* C2 (as stated): every returned value is the answer of an accepting      *)
(* verify_final call.                                                       *)
C2_ReturnsOnlyVerified == outcome = "returned" => VerifiedReturn

(* C2 (amended): a returned value is the answer of an accepting            *)
(* verify_final call or, with require_gold=False at iter_idx >=            *)
(* min_iters - 1, str of the goal's value in a workspace that passed       *)
(* check_local for the goal; every other finished run raised an error.     *)
C2_ReturnsVerifiedOrNoGold ==
    /\ outcome = "returned"
         => \/ VerifiedReturn
            \/ (~require_gold /\ iter_idx >= min_iters - 1 /\ LocalReturn)
    /\ (Terminated /\ outcome # "returned")
         => (outcome \in {"RuntimeError", "KeyError"} /\ result = NoResult)

C2_Witness == outcome = "returned" /\ ~require_gold /\ LocalReturn /\ ~VerifiedReturn

(* C3: with require_gold=True a run returns only the answer of a           *)
(* verify_final call that has just accepted, at each return site.           *)
C3_GoldReturnIsVerified ==
    (require_gold /\ Terminated)
        => \/ VerifiedReturn /\ pc \in {"check", "direct", "forward"}
           \/ outcome = "RuntimeError" /\ pc = "for"

C3_Witness == require_gold /\ VerifiedReturn /\ pc = "forward"

(* a GSM8KSpec whose gold answer is NaN rejects every final answer *)
AlwaysRejects == spec = "GSM8KSpec" /\ gold_numeric_answer = NaN

(* C4 (as stated): when verify_final always rejects, the run never returns *)
(* and ends in the exhaustion error after max_iters iterations.             *)
C4_AlwaysRejectExhausts ==
    (AlwaysRejects /\ Terminated) => (outcome = "RuntimeError" /\ iter_idx + 1 = max_iters)

(* C4 (amended): when verify_final always rejects and either require_gold  *)
(* is True or min_iters > max_iters, the run performs exactly max_iters    *)
(* iterations and then raises the exhaustion error.                         *)
C4_Applies == AlwaysRejects /\ (require_gold \/ min_iters > max_iters)

C4_AlwaysRejectExhaustsUnderGold ==
    /\ [](C4_Applies => /\ outcome \in {"running", "RuntimeError"}
                        /\ iter_idx < max_iters
                        /\ (outcome = "RuntimeError" => iter_idx + 1 = max_iters))
    /\ <>(C4_Applies => outcome = "RuntimeError")

C4_Witness ==
    /\ C4_Applies
    /\ outcome = "RuntimeError"
    /\ max_iters >= 2
    /\ Count(attempt_counts, goal) >= 2
    /\ check_local(state, goal)

(* C5: every finished run is solved (a value is returned) or exhausted     *)
(* (RuntimeError after max_iters iterations).                               *)
C5_SolvedOrExhausted ==
    /\ outcome \in {"running", "returned", "RuntimeError"}
    /\ iter_idx < max_iters
    /\ (outcome = "RuntimeError" => iter_idx + 1 = max_iters)

(* C6: the scripted two-prerequisite strategy returns the objective's      *)
(* value in the iteration with index 2, given max_iters >= 3.               *)
C6_StubReturnsInThirdIteration ==
    (llm = "stub" /\ max_iters >= 3)
        => /\ (iter_idx < 2 => ~Terminated)
           /\ iter_idx <= 2
           /\ Terminated => /\ outcome = "returned"
                            /\ iter_idx = 2
                            /\ result \in {PyStr(I1), PyStr(PyFloat(I1))}
           /\ ~(iter_idx = 2 /\ pc \in {"backward", "forward", "for"})

C6_Witness ==
    /\ llm = "stub"
    /\ outcome = "returned"
    /\ iter_idx = 2
    /\ Keys(state) = {"A", "B"} \/ Keys(state) = {"A", "B", "final_answer"}

(* C7: with require_gold=False no unverified goal value is returned in an  *)
(* iteration with iter_idx < min_iters - 1.                                 *)
C7_NoUnverifiedReturnBeforeFloor ==
    (~require_gold /\ outcome = "returned" /\ iter_idx < min_iters - 1) => VerifiedReturn

C7_Witness ==
    /\ ~require_gold
    /\ outcome = "returned"
    /\ iter_idx < min_iters - 1
    /\ pc \in {"direct", "forward"}

(* C8: with require_gold=False, when an iteration with iter_idx >=         *)
(* min_iters - 1 starts with check_local(state, goal) true, the run        *)
(* returns str(state[goal]) at once, calling nothing but check_local.       *)
C8_LocalGoalReturnsAtOnce ==
    [][(pc = "check" /\ ~Terminated /\ ~require_gold /\ iter_idx >= min_iters - 1
          /\ check_local(state, goal))
         => (/\ outcome' = "returned"
             /\ Has(state, goal)
             /\ result' = PyStr(Get(state, goal))
             /\ {calls'[i].op : i \in 1..Len(calls')} = {"check_local"})]_vars

(* C9: the goal is the objective derived before the loop and never         *)
(* changes; the objective check, the direct attempt and the backward       *)
(* planning request are made for it.                                        *)
C9_GoalIsConstant ==
    /\ goal = derive_final_target
    /\ \A i \in 1..Len(calls) :
         calls[i].op \in {"prompt_last_step", "verify_final"} => calls[i].sym = derive_final_target
    /\ (calls # <<>> /\ pc \in {"check", "direct", "backward"})
         => calls[1].sym = derive_final_target

C9_Witness ==
    /\ pc = "forward"
    /\ iter_idx >= 1
    /\ state # <<>>
    /\ calls[1].op = "prompt_last_step"
    /\ target_step # goal

(* C10: outside a stagnation reset the avoid set only grows. *)
C10_AvoidGrowsBetweenResets ==
    [][~("soft_restart" \in {calls'[i].op : i \in 1..Len(calls')}) => avoid \subseteq avoid']_vars

C10_Witness == Cardinality(avoid) = 2 /\ pc = "check"

(* C11: once a symbol's attempt counter has reached max_fails_per_var, no   *)
(* forward-step request (prompt_forward_step + llm_call) is issued for it   *)
(* again: neither the direct attempt nor the forward step asks for a symbol *)
(* whose counter is at the threshold when the step begins.                   *)
C11_NoRequestAtThreshold ==
    [][(pc = "direct" \/ pc = "forward")
         => (\A i \in 1..Len(calls') :
               calls'[i].op = "prompt_forward_step"
                 => (/\ Count(attempt_counts, calls'[i].sym) < max_fails_per_var
                     /\ calls'[i].sym \notin avoid
                     /\ i < Len(calls')
                     /\ calls'[i + 1].op = "llm_call"))]_vars

(* the goal failed three direct attempts, the fourth iteration skipped the  *)
(* direct attempt and ended at the guard on a proposal of the goal           *)
C11_Witness ==
    /\ iter_idx = 3
    /\ pc = "for"
    /\ target_step = goal
    /\ Count(attempt_counts, goal) = max_fails_per_var
    /\ goal \in avoid
    /\ Len(calls) = 2
    /\ calls[1].op = "prompt_last_step"

(* C12: the stagnation counter is incremented at the end of every iteration *)
(* that commits no new fact (ended at the guard, by a rejected goal         *)
(* proposal, a failed local check or a malformed proposal; at the window    *)
(* the reset zeroes it) and is reset to zero by every iteration that        *)
(* commits the requested prerequisite.                                       *)
C12_StagnationCountsIdleIterations ==
    [][((pc = "backward" \/ pc = "forward") /\ pc' = "for")
         => stagnation_counter' =
              IF {"merge_aliases", "register_fail"} \subseteq Ops' THEN 0
              ELSE IF stagnation_counter + 1 >= stagnation_window THEN 0
              ELSE stagnation_counter + 1]_vars

(* C13: the stagnation reset (avoid-set pruning and zeroing of the counter) *)
(* is performed exactly in the iterations whose bookkeeping brings the      *)
(* stagnation counter to stagnation_window; the counter is in               *)
(* 0..stagnation_window - 1 whenever an iteration starts and changes only   *)
(* in the bookkeeping.                                                       *)
C13_ResetExactlyAtWindow ==
    [][/\ stagnation_counter' \in 0..(stagnation_window - 1)
       /\ (pc = "forward")
            => (("soft_restart" \in Ops')
                  <=> (/\ "merge_aliases" \in Ops'
                       /\ "register_fail" \notin Ops'
                       /\ stagnation_counter + 1 = stagnation_window))
       /\ (pc = "forward" /\ "soft_restart" \in Ops')
            => (/\ stagnation_counter' = 0
                /\ avoid' = {s \in DOMAIN attempt_counts' :
                               attempt_counts'[s] >= max_fails_per_var})
       /\ (pc # "forward") => (stagnation_counter' = stagnation_counter)]_vars

(* four idle iterations in a row reached the bookkeeping; the fourth reset *)
C13_Witness ==
    /\ SoftRestarted
    /\ pc = "for"
    /\ iter_idx = stagnation_window - 1
    /\ stagnation_counter = 0

(* C14: a stagnation reset never removes a permanently excluded symbol:    *)
(* every symbol whose attempt counter is >= max_fails_per_var before the   *)
(* reset is in the avoid set after it.                                      *)
C14_ResetKeepsPermanent ==
    [][(pc = "forward" /\ "soft_restart" \in Ops')
         => (\A s \in DOMAIN attempt_counts :
               attempt_counts[s] >= max_fails_per_var => s \in avoid')]_vars

(* a reset happened while the goal was permanently excluded *)
C14_Witness ==
    /\ SoftRestarted
    /\ Count(attempt_counts, goal) >= max_fails_per_var
    /\ goal \in avoid

(* C15: with the strategy that alternates, for the requested symbol A,     *)
(* between a malformed and a valid (committed) proposal, A's attempt       *)
(* counter is the number of malformed turns so far (the valid turns leave  *)
(* it unchanged), and after a stagnation reset A is outside the avoid set. *)
C15_CounterCountsMalformedTurns ==
    llm = "alternating"
        => /\ Count(attempt_counts, AlternatingTarget) = (turns + 1) \div 2
           /\ (SoftRestarted => AlternatingTarget \notin avoid)

C17_RegisterFailCountsOne ==
    [][pc = "register_fail"
         => (\E symbol \in Symbols :
               /\ calls'[1].sym = symbol
               /\ DOMAIN attempt_counts' = DOMAIN attempt_counts \cup {symbol}
               /\ attempt_counts'[symbol] = Count(attempt_counts, symbol) + 1
               /\ (symbol \notin DOMAIN attempt_counts => attempt_counts'[symbol] = 1)
               /\ \A s \in DOMAIN attempt_counts \ {symbol} :
                    attempt_counts'[s] = attempt_counts[s]
               /\ (symbol \in avoid' <=> attempt_counts'[symbol] >= max_fails_per_var)
               /\ avoid' \ {symbol} = avoid \ {symbol})]_vars

(* a call brought its symbol to the threshold and into the avoid set,      *)
(* while another symbol has a counter below the threshold                   *)
C17_Witness ==
    /\ pc = "done"
    /\ calls[1].op = "register_fail"
    /\ attempt_counts[calls[1].sym] = max_fails_per_var
    /\ calls[1].sym \in avoid
    /\ \E s \in DOMAIN attempt_counts : attempt_counts[s] < max_fails_per_var /\ s \notin avoid

(* C18: every successfully computed prerequisite (the forward result names *)
(* the requested symbol and passes check_local, so it is committed) is in  *)
(* the avoid set from that commit on, so that the guard skips it.            *)
C18_CommittedSymbolIsAvoided == ForwardCommitted => target_step \in avoid

(* C19: verify_final is called only on a workspace w for which             *)
(* check_local(w, goal) has just returned True, at each of its three call  *)
(* sites: the running state in step 1, the direct-attempt candidate, the   *)
(* forward goal-branch candidate.                                           *)
C19_VerifyOnlyBehindLocalCheck ==
    [][(pc = "check" \/ pc = "direct" \/ pc = "forward")
         => (\A i \in 1..Len(calls') :
               calls'[i].op = "verify_final"
                 => (LET w == IF pc = "check" THEN state ELSE WorkspaceOr(state, proposal')
                     IN /\ i > 1
                        /\ calls'[i - 1] = Call("check_local", goal, TRUE, NoResult)
                        /\ check_local(w, goal)
                        /\ calls'[i].ret = verify_final(w).ok
                        /\ calls'[i].out = verify_final(w).answer))]_vars

(* the forward goal-branch called verify_final behind its local check and  *)
(* was rejected                                                             *)
C19_Witness ==
    /\ pc = "for"
    /\ Len(calls) >= 4
    /\ calls[3].op = "check_local" /\ calls[3].ret
    /\ calls[4].op = "verify_final" /\ ~calls[4].ret

(* C20: Workspace merge A | B is total and right-biased: the result's key  *)
(* set is keys(A) union keys(B), each key only in A keeps A's value, and   *)
(* each key of B, colliding or not, has B's value.                          *)
C20_MergeIsRightBiased ==
    (pc = "done" /\ calls[1].op = "__or__")
        => /\ Keys(retval) = Keys(state) \cup Keys(proposal)
           /\ \A key \in Keys(state) \ Keys(proposal) : Get(retval, key) = Get(state, key)
           /\ \A key \in Keys(proposal) : Get(retval, key) = Get(proposal, key)
           /\ Len(retval) = Cardinality(Keys(retval))

(* a merge with a key only in A, a key only in B and a colliding key on    *)
(* which A and B disagree                                                    *)
C20_Witness ==
    /\ pc = "done"
    /\ calls[1].op = "__or__"
    /\ Keys(state) \ Keys(proposal) # {}
    /\ Keys(proposal) \ Keys(state) # {}
    /\ \E key \in Keys(state) \cap Keys(proposal) :
         /\ Get(state, key) # Get(proposal, key)
         /\ Get(retval, key) = Get(proposal, key)

C22_EmptyMergeIsIdentity ==
    (pc = "done" /\ calls[1].op = "__or__" /\ proposal = <<>>)
        => /\ retval = state
           /\ Keys(retval) = Keys(state)
           /\ \A key \in Keys(state) : Get(retval, key) = Get(state, key)

(* A | {} for an A with MaxKeys keys *)
C22_Witness ==
    /\ pc = "done"
    /\ calls[1].op = "__or__"
    /\ proposal = <<>>
    /\ Len(state) = MaxKeys
    /\ retval = state

(* C23: in the forward step, when the proposal targets the goal and the    *)
(* candidate is not accepted (check_local fails, or verify_final rejects), *)
(* the controller calls register_fail on the goal and on the requested     *)
(* prerequisite if it differs from the goal, and leaves the running state  *)
(* and the stagnation counter as they were, whatever verbose is.            *)
C23_RejectedGoalProposalIsDiscarded ==
    [][(pc = "forward" /\ proposal' # <<>> /\ proposal'[1].k = goal /\ outcome' = "running")
         => (/\ state' = state
             /\ stagnation_counter' = stagnation_counter
             /\ Count(attempt_counts', goal) = Count(attempt_counts, goal) + 1
             /\ (target_step # goal)
                  => (Count(attempt_counts', target_step)
                        = Count(attempt_counts, target_step) + 1))]_vars

C25_GuardEndsIteration ==
    [][(pc = "backward" /\ (target_step' = "" \/ target_step' \in avoid))
         => (/\ pc' = "for"
             /\ state' = state
             /\ attempt_counts' = attempt_counts
             /\ avoid' = avoid
             /\ stagnation_counter' = stagnation_counter
             /\ outcome' = "running"
             /\ \A i \in 1..Len(calls') :
                  calls'[i].op \notin {"prompt_forward_step", "register_fail"})]_vars

(* an iteration ended at the guard on an excluded prerequisite, after the  *)
(* direct attempt had left a fact in the workspace                          *)
C25_Witness ==
    /\ pc = "for"
    /\ iter_idx >= 0
    /\ Len(calls) = 2
    /\ calls[1].op = "prompt_last_step"
    /\ target_step \in avoid
    /\ target_step # goal
    /\ state # <<>>

(* C26: every direct attempt (taken only when the goal is not in the avoid *)
(* set) that does not return replaces the running state by                 *)
(* state | proposal, whether or not check_local held for the goal, and     *)
(* increments the goal's attempt counter by exactly one, leaving the other *)
(* counters alone.                                                          *)
C26_DirectAttemptCommits ==
    [][(pc = "direct" /\ outcome' = "running")
         => (IF goal \in avoid
             THEN /\ state' = state
                  /\ attempt_counts' = attempt_counts
                  /\ calls' = <<>>
             ELSE /\ state' = WorkspaceOr(state, proposal')
                  /\ DOMAIN attempt_counts' = DOMAIN attempt_counts \cup {goal}
                  /\ attempt_counts'[goal] = Count(attempt_counts, goal) + 1
                  /\ \A s \in DOMAIN attempt_counts \ {goal} :
                       attempt_counts'[s] = attempt_counts[s]
                  /\ pc' = "backward")]_vars

(* a direct attempt whose candidate failed check_local for the goal was    *)
(* committed with the side fact it carried                                  *)
C26_Witness ==
    /\ pc = "backward"
    /\ calls # <<>>
    /\ LastCall = Call("register_fail", goal, TRUE, NoResult)
    /\ calls[3] = Call("check_local", goal, FALSE, NoResult)
    /\ proposal # <<>>
    /\ Has(state, proposal[1].k)
    /\ Get(state, proposal[1].k) = proposal[1].v
    /\ Len(state) >= 2

C28_CommitIsMergedBeforeNextIteration ==
    [][(pc = "backward" /\ calls # <<>> /\ proposal # <<>> /\ pc' = "for")
         => (/\ "merge_aliases" \in Ops'
             /\ state' = merge_aliases(state))]_vars

(* C29: attempt counters are non-negative integers that never decrease     *)
(* during a run: in every controller step, the stagnation reset included,  *)
(* every symbol that has a counter keeps it, unchanged or larger.           *)
C29_CountersNeverDecrease ==
    [][/\ DOMAIN attempt_counts \subseteq DOMAIN attempt_counts'
       /\ \A s \in DOMAIN attempt_counts : attempt_counts'[s] >= attempt_counts[s]
       /\ \A s \in DOMAIN attempt_counts' : attempt_counts'[s] \in Nat]_vars

(* a soft restart has just run over counters that had reached the threshold *)
C29_Witness ==
    /\ SoftRestarted
    /\ stagnation_counter = 0
    /\ goal \in DOMAIN attempt_counts
    /\ attempt_counts[goal] >= max_fails_per_var

(* C30: the running workspace starts empty and its key set never shrinks   *)
(* in any controller step other than merge_aliases: every assignment of    *)
(* `state` outside alias coalescing (state = direct_state, state =         *)
(* temp_state) yields a superset of the previous key set; the forward step *)
(* with its bookkeeping assigns merge_aliases of such a superset.           *)
C30_KeySetOnlyGrows ==
    /\ state = <<>>
    /\ [][IF pc = "forward"
          THEN \E st \in {state, WorkspaceOr(state, proposal')} :
                  /\ Keys(state) \subseteq Keys(st)
                  /\ state' \in {st, merge_aliases(st)}
          ELSE Keys(state) \subseteq Keys(state')]_vars

(* a forward commit has added the requested key to a workspace that the    *)
(* direct attempts had already filled                                       *)
C30_Witness ==
    /\ ForwardCommitted
    /\ proposal # <<>>
    /\ proposal[1].k = target_step
    /\ Has(state, target_step)
    /\ Cardinality(Keys(state)) >= 3

C33_VerboseHasNoEffect ==
    [][(pc = "forward") => ForwardStepAs(~verbose)]_vars

(* C34: with verbose = False the post-iteration bookkeeping is reached     *)
(* only by iterations that committed a prerequisite, so the stagnation     *)
(* counter is 0 in every reachable state and the soft restart is never     *)
(* executed.                                                                *)
C34_QuietRunsNeverStagnate ==
    /\ stagnation_counter = 0
    /\ [][~verbose
            => /\ stagnation_counter' = 0
               /\ (pc = "forward")
                    => /\ "soft_restart" \notin Ops'
                       /\ ("merge_aliases" \in Ops')
                            => /\ proposal' # <<>>
                               /\ proposal'[1].k = target_step
                               /\ check_local(WorkspaceOr(state, proposal'), target_step)
                               /\ state' = merge_aliases(WorkspaceOr(state, proposal'))]_vars

(* a quiet run has ended iterations with and without a commit *)
C34_Witness ==
    /\ ~verbose
    /\ ForwardCommitted
    /\ iter_idx >= 2
    /\ Len(state) = 1
    /\ stagnation_counter = 0

(* C35: the direct attempt is executed at most max_fails_per_var (3) times *)
(* in any run, whatever max_iters is: it is executed exactly when the goal *)
(* is outside the avoid set, each execution that does not return          *)
(* increments the goal's counter, and once the goal is in the avoid set    *)
(* it stays there and the direct attempt is not taken again.                *)
C35_DirectAttemptAtMostThrice ==
    /\ direct_attempts = 0
    /\ [][/\ direct_attempts' <= max_fails_per_var
          /\ direct_attempts' <= Count(attempt_counts', goal) + (IF outcome' # "running" THEN 1 ELSE 0)
          /\ (pc = "direct")
               => IF goal \in avoid
                  THEN direct_attempts' = direct_attempts /\ calls' = <<>>
                  ELSE /\ direct_attempts' = direct_attempts + 1
                       /\ "llm_call" \in Ops'
                       /\ (outcome' = "running")
                            => attempt_counts'[goal] = Count(attempt_counts, goal) + 1
          /\ (pc # "direct") => direct_attempts' = direct_attempts
          /\ (goal \in avoid) => (goal' = goal /\ goal \in avoid')]_vars

(* a run of four iterations has skipped the direct attempt in the fourth *)
C35_Witness ==
    /\ pc = "backward"
    /\ iter_idx = max_fails_per_var
    /\ direct_attempts = max_fails_per_var
    /\ goal \in avoid
    /\ calls = <<>>

C37_LocalGoalIsKey ==
    /\ check_local(state, goal) => Has(state, goal)
    /\ outcome # "KeyError"

(* C38 (as stated): for every strategy, parse_workspace_update does not    *)
(* modify the workspace passed to it and what it returns is a separate     *)
(* fragment, never the passed workspace itself, so that a rejected         *)
(* proposal leaves the running state exactly as it was.                     *)
C38_ParseLeavesStateAlone ==
    [][(pc = "parse_workspace_update")
         => /\ state' = state
            /\ LastCall'.sym # "state"]_vars

(* C39: with Game24Spec every non-empty proposal is keyed by a fresh       *)
(* identifier that is neither the goal "24" nor the requested expression   *)
(* nor a key of the workspace, so the forward step always takes the reject *)
(* branch (register_fail(target_step), continue): no prerequisite is ever  *)
(* committed and the workspace changes only through the direct attempt.    *)
C39_Game24ForwardAlwaysRejects ==
    [][(spec = "Game24Spec")
         => /\ (proposal' # <<>>)
                 => /\ proposal'[1].k \notin {goal, target_step'}
                    /\ (pc = "direct" \/ pc = "forward") => ~Has(state, proposal'[1].k)
            /\ (pc = "forward")
                 => /\ state' = state
                    /\ pc' = "for"
                    /\ outcome' = "running"
                    /\ Ops' = {"prompt_forward_step", "llm_call", "register_fail"}
                    /\ LastCall' = Call("register_fail", target_step, TRUE, NoResult)
                    /\ attempt_counts'[target_step] = Count(attempt_counts, target_step) + 1
            /\ (pc # "direct") => state' = state]_vars

(* a valid expression for the requested prerequisite has just been rejected *)
C39_Witness ==
    /\ spec = "Game24Spec"
    /\ pc = "for"
    /\ calls # <<>>
    /\ "prompt_forward_step" \in Ops
    /\ LastCall = Call("register_fail", target_step, TRUE, NoResult)
    /\ target_step = "1+1"
    /\ proposal # <<>>
    /\ proposal[1].v.expr = "1+1"
    /\ ~Has(state, proposal[1].k)

(* C40: with Game24Spec, in every reachable running workspace the multiset *)
(* of numbers used by all stored expressions is contained in the multiset  *)
(* of the original numbers; a proposal is non-empty only if its numbers    *)
(* are a sub-multiset of the original numbers minus those used in the      *)
(* state it is merged into.                                                 *)
C40_UsedNumbersWithinOriginal ==
    [][(spec = "Game24Spec")
         => /\ \A x \in Numbers : used_counter(state')[x] <= Counter(original_nums)[x]
            /\ ((pc = "direct" \/ pc = "forward") /\ proposal' # <<>> /\ "llm_call" \in Ops')
                 => /\ Len(proposal') = 1
                    /\ \A x \in Numbers :
                         Counter(proposal'[1].v.nums)[x] + used_counter(state)[x]
                           <= Counter(original_nums)[x]]_vars

(* two direct attempts have stored expressions that use up all the numbers *)
C40_Witness ==
    /\ spec = "Game24Spec"
    /\ Len(state) = 2
    /\ used_counter(state) = Counter(original_nums)
    /\ pc = "backward" /\ calls # <<>>

====
